---- MODULE Spec2Model ----
(***************************************************************************)
(* Question-paper generator of DES_BACKEND.  Two versions of the server    *)
(* are in the repository: src/unnamed/part_000 (Part A / Part B paper, 17  *)
(* questions) and src/server.js (6 questions).  The variable impl says     *)
(* which of the two is running; every handler is modelled for both.        *)
(*                                                                         *)
(* Cells of the uploaded sheet and the btLevel of a question are strings,  *)
(* modelled as sequences of one-character strings, so that trim, the       *)
(* /^L/i strip, toUpperCase and parseInt are computed as the code does.    *)
(***************************************************************************)
EXTENDS Integers, Sequences, FiniteSets, TLC

VARIABLES
    impl,               \* which source file is the running server
    questionBank,       \* let questionBank (None = null)
    phase,              \* position of the running /api/generate handler
    paperType,          \* req.body.paperType of the running request
    genPool,            \* the questionBank the running request found on entry
    partAQuestions,     \* part_000 local
    partBQuestions,     \* part_000 local
    availableBTLs,      \* local Set, in insertion order
    btlRequirements,    \* local array of rules (part_000 decrements count)
    remainingQuestions, \* local of the running select function
    selectedQuestions,  \* local of the running select function
    partASelected,      \* part_000 local
    unitCount,          \* local
    btlCount,           \* local
    slot,               \* loop position: label index (part_000), rule index (server.js)
    count,              \* server.js local: picks left for the current rule
    randomBTLs,         \* server.js local of the 'random' rule
    draws,              \* number of Math.random() values the request consumed
    lastPick,           \* what the latest draw of a question saw and took
    returned,           \* what generateQuestions returned or threw (ids kept)
    response,           \* the latest HTTP response (status and error)
    rng,                \* the random source
    prev                \* the previous generate request, under a seeded source

vars == <<impl, questionBank, phase, paperType, genPool, partAQuestions,
          partBQuestions, availableBTLs, btlRequirements, remainingQuestions,
          selectedQuestions, partASelected, unitCount, btlCount, slot, count,
          randomBTLs, draws, lastPick, returned, response, rng, prev>>

\* questionBank: null, or an array of questions
NullBank == [null |-> TRUE, q |-> <<>>]
Bank(items) == [null |-> FALSE, q |-> items]

\* An error: its message kind and the values the message carries (a set holds
\* the value, the empty set says the message does not carry it)
Err(type, unit, level, have, need) ==
    [type |-> type, unit |-> unit, level |-> level, have |-> have, need |-> need]
NoErr == Err("", {}, {}, {}, {})

\* What generateQuestions gave: nothing yet, a value, or an exception
NotCalled ==
    [kind |-> "none", partA |-> <<>>, partB |-> <<>>, questions |-> <<>>, error |-> NoErr]
Threw(e) ==
    [kind |-> "throw", partA |-> <<>>, partB |-> <<>>, questions |-> <<>>, error |-> e]
ReturnedAB(a, b) ==
    [kind |-> "return", partA |-> a, partB |-> b, questions |-> <<>>, error |-> NoErr]
Returned6(qs) ==
    [kind |-> "return", partA |-> <<>>, partB |-> <<>>, questions |-> qs, error |-> NoErr]

\* An HTTP response
NoResponse == [req |-> "none", status |-> 0, error |-> NoErr, questionCount |-> 0]
Reply(req, status, e, n) == [req |-> req, status |-> status, error |-> e, questionCount |-> n]

-----------------------------------------------------------------------------
(* Bounds of the model *)

\* Math.random() returns r / RandGrid for r in 0 .. RandGrid-1
RandGrid == 2


-----------------------------------------------------------------------------
(* Strings *)

Str(c) == <<c>>

Digits == {"0", "1", "2", "3", "4", "5", "6", "7", "8", "9"}

DigitVal(c) ==
    CASE c = "0" -> 0 [] c = "1" -> 1 [] c = "2" -> 2 [] c = "3" -> 3
      [] c = "4" -> 4 [] c = "5" -> 5 [] c = "6" -> 6 [] c = "7" -> 7
      [] c = "8" -> 8 [] c = "9" -> 9

RECURSIVE TrimLeft(_)
TrimLeft(s) == IF s # <<>> /\ Head(s) = " " THEN TrimLeft(Tail(s)) ELSE s

RECURSIVE TrimRight(_)
TrimRight(s) ==
    IF s # <<>> /\ s[Len(s)] = " " THEN TrimRight(SubSeq(s, 1, Len(s) - 1)) ELSE s

\* String.prototype.trim
Trim(s) == TrimRight(TrimLeft(s))

\* btLevelRaw.replace(/^L/i, '')
StripL(s) == IF s # <<>> /\ Head(s) \in {"L", "l"} THEN Tail(s) ELSE s

UpperChar(c) == CASE c = "i" -> "I" [] c = "v" -> "V" [] c = "l" -> "L" [] OTHER -> c

\* String.prototype.toUpperCase
ToUpperCase(s) == [i \in 1..Len(s) |-> UpperChar(s[i])]

RECURSIVE DigitPrefix(_)
DigitPrefix(s) ==
    IF s # <<>> /\ Head(s) \in Digits THEN <<Head(s)>> \o DigitPrefix(Tail(s)) ELSE <<>>

RECURSIVE DecimalValue(_)
DecimalValue(s) ==
    IF s = <<>> THEN 0 ELSE 10 * DecimalValue(SubSeq(s, 1, Len(s) - 1)) + DigitVal(s[Len(s)])

\* parseInt(s) || 0 : leading blanks skipped, the leading digits parsed, NaN gives 0
ParseIntOr0(s) == DecimalValue(DigitPrefix(TrimLeft(s)))

\* romanToInt
romanToInt(roman) ==
    LET u == ToUpperCase(roman)
    IN  CASE u = <<"I">> -> 1
          [] u = <<"I", "I">> -> 2
          [] u = <<"I", "I", "I">> -> 3
          [] u = <<"I", "V">> -> 4
          [] u = <<"V">> -> 5
          [] OTHER -> 0

-----------------------------------------------------------------------------
(* Sequences *)

\* Array.prototype.filter
Filter(s, Test(_)) == SelectSeq(s, Test)

\* a pick that leaves the question where it was
KeepAll(s, id) == s

\* remainingQuestions.filter(r => r.id !== q.id)
RemoveId(s, id) == LET Keep(r) == r.id # id IN SelectSeq(s, Keep)

Range(s) == {s[i] : i \in 1..Len(s)}

\* Math.floor(Math.random() * n), Math.random() being r / RandGrid
RandomIndex(r, n) == (r * n) \div RandGrid

-----------------------------------------------------------------------------
(* The two servers *)

PartAB == "src/unnamed/part_000"
Server6 == "src/server.js"

Impls == {PartAB, Server6}

\* requiredFields of part_000
RequiredFields == <<"subjectCode", "subject", "branch", "regulation", "year", "semester">>

AllFields == Range(RequiredFields)

L1 == Str("1")
L2 == Str("2")
L3 == Str("3")
L4 == Str("4")
L5 == Str("5")
L6 == Str("6")

-----------------------------------------------------------------------------
(* Uploaded sheets: rows of cells.  Unit and BT are the cells 'Unit' and   *)
(* 'B.T Level'; fields is the set of descriptive cells that are not empty. *)

Row(u, bt) == [Unit |-> u, BT |-> bt, fields |-> AllFields]

RECURSIVE Expand(_)
\* the rows of a profile, a sequence of blocks <<unit cell, level cell, number of rows>>
Expand(profile) ==
    IF profile = <<>> THEN <<>>
    ELSE LET b == Head(profile)
         IN  [i \in 1..b[3] |-> Row(b[1], b[2])] \o Expand(Tail(profile))

\* profile p with one row less in block j
OneShort(p, j) == [p EXCEPT ![j] = <<p[j][1], p[j][2], p[j][3] - 1>>]

\* profile p with the level cell of block j replaced
Relevel(p, j, bt) == [p EXCEPT ![j] = <<p[j][1], bt, p[j][3]>>]

RI == <<"I">>
RII == <<"I", "I">>
RIII == <<"I", "I", "I">>
RIV == <<"I", "V">>
RV == <<"V">>

CL1 == <<"L", "1">>
CL2 == <<"L", "2">>
CL3 == <<"L", "3">>
CL4 == <<"L", "4">>
CL5 == <<"L", "5">>
CL6 == <<"L", "6">>

\* part_000, mid1: exactly the minimum of every unit and of every level (max level 4)
Mid1Min ==
    << <<RI, CL1, 2>>, <<RI, CL2, 4>>, <<RI, CL3, 1>>,
       <<RII, CL1, 2>>, <<RII, CL3, 3>>, <<RII, CL4, 2>>,
       <<RIII, CL1, 1>>, <<RIII, <<"l", "3">>, 1>>, <<RIII, <<" ", "L", "4", " ">>, 1>> >>

\* part_000, mid2: exactly the minimum of every unit and of every level (max level 4)
Mid2Min ==
    << <<RIII, CL1, 1>>, <<RIII, CL2, 2>>,
       <<RIV, CL1, 2>>, <<RIV, CL2, 2>>, <<RIV, CL3, 3>>,
       <<RV, CL1, 2>>, <<RV, CL3, 1>>, <<RV, CL4, 2>>, <<RV, <<"4">>, 2>> >>

-----------------------------------------------------------------------------
(* processExcelData *)

\* the 'unit' of a row: romanToInt(row.Unit) in part_000, parseInt(row.Unit) || 0
\* in server.js
UnitOfCell(cell) == IF impl = PartAB THEN romanToInt(cell) ELSE ParseIntOr0(cell)

\* btLevel: String(row['B.T Level'] || '').trim().replace(/^L/i, ''), then || '0'
LevelOfCell(cell) == LET btLevel == StripL(Trim(cell)) IN IF btLevel = <<>> THEN Str("0") ELSE btLevel

processExcelData(data) ==
    LET mapped == [index \in 1..Len(data) |->
                      [id |-> index,
                       unit |-> UnitOfCell(data[index].Unit),
                       btLevel |-> LevelOfCell(data[index].BT),
                       fields |-> data[index].fields]]
        Keep(q) == q.unit >= 1 /\ q.unit <= 5 /\ q.btLevel # Str("0")
    IN  Filter(mapped, Keep)

-----------------------------------------------------------------------------
(* Requirement catalog *)

RandomLevel == <<"r", "a", "n", "d", "o", "m">>

Fixed(level, n) == [level |-> level, options |-> <<>>, count |-> n]
OneOf(options, n) == [level |-> RandomLevel, options |-> options, count |-> n]

UReq(u, min, max) == [unit |-> u, minCount |-> min, maxCount |-> max]
AReq(u, n) == [unit |-> u, count |-> n]
Lab(label, u) == [label |-> label, unit |-> u]

\* the paper types a server knows
KnownPaperTypes == IF impl = PartAB THEN {"mid1", "mid2"} ELSE {"mid1", "mid2", "special"}

\* a catalog whose Part A forgets unit 3
partAWithoutUnit3(pt) ==
    IF pt = "mid1" THEN <<AReq(1, 2), AReq(2, 2)>> ELSE <<AReq(4, 2), AReq(5, 2)>>

\* part_000 only: the level-1 questions each unit gives to Part A
partAUnitRequirements(pt) ==
    IF pt = "mid1" THEN <<AReq(1, 2), AReq(2, 2), AReq(3, 1)>>
    ELSE <<AReq(3, 1), AReq(4, 2), AReq(5, 2)>>

\* a catalog that declares one question for unit 3 where the slots take more
unitRequirementsLow(pt) ==
    IF impl = PartAB
    THEN IF pt = "mid1" THEN <<UReq(1, 5, 5), UReq(2, 5, 5), UReq(3, 1, 1)>>
         ELSE <<UReq(3, 1, 1), UReq(4, 5, 5), UReq(5, 5, 5)>>
    ELSE <<UReq(1, 1, 2), UReq(2, 1, 2), UReq(3, 0, 0), UReq(4, 1, 2), UReq(5, 1, 2)>>

unitRequirements(pt) ==
    IF impl = PartAB
    THEN IF pt = "mid1" THEN <<UReq(1, 5, 5), UReq(2, 5, 5), UReq(3, 2, 2)>>
         ELSE <<UReq(3, 2, 2), UReq(4, 5, 5), UReq(5, 5, 5)>>
    ELSE CASE pt = "mid1" -> <<UReq(1, 2, 3), UReq(2, 2, 3), UReq(3, 1, 1)>>
           [] pt = "mid2" -> <<UReq(3, 1, 1), UReq(4, 2, 3), UReq(5, 2, 3)>>
           [] OTHER -> <<UReq(1, 1, 2), UReq(2, 1, 2), UReq(3, 1, 2), UReq(4, 1, 2),
                         UReq(5, 1, 2)>>

\* slots whose label 7a is keyed to the wrong unit
questionLabelsMiskeyed(pt) ==
    IF pt = "mid1"
    THEN <<Lab("2a", 1), Lab("2b", 1), Lab("3a", 1), Lab("3b", 1), Lab("6b", 1),
           Lab("4a", 2), Lab("4b", 2), Lab("5a", 2), Lab("5b", 2), Lab("7b", 2),
           Lab("6a", 3), Lab("7a", 2)>>
    ELSE <<Lab("2a", 3), Lab("2b", 3), Lab("3a", 4), Lab("3b", 4), Lab("4a", 4),
           Lab("4b", 4), Lab("5a", 4), Lab("5b", 5), Lab("6a", 5), Lab("6b", 5),
           Lab("7a", 4), Lab("7b", 5)>>

\* part_000 only: the slots of Part B
questionLabels(pt) ==
    IF pt = "mid1"
    THEN <<Lab("2a", 1), Lab("2b", 1), Lab("3a", 1), Lab("3b", 1), Lab("6b", 1),
           Lab("4a", 2), Lab("4b", 2), Lab("5a", 2), Lab("5b", 2), Lab("7b", 2),
           Lab("6a", 3), Lab("7a", 3)>>
    ELSE <<Lab("2a", 3), Lab("2b", 3), Lab("3a", 4), Lab("3b", 4), Lab("4a", 4),
           Lab("4b", 4), Lab("5a", 4), Lab("5b", 5), Lab("6a", 5), Lab("6b", 5),
           Lab("7a", 5), Lab("7b", 5)>>

\* part_000 only: the slots of Part A
partALabels(pt) ==
    IF pt = "mid1"
    THEN <<Lab("1", 1), Lab("2", 1), Lab("3", 2), Lab("4", 2), Lab("5", 3)>>
    ELSE <<Lab("1", 3), Lab("2", 4), Lab("3", 4), Lab("4", 5), Lab("5", 5)>>

\* a label order that puts question 6 first
labelOrderSixFirst ==
    <<"6a", "6b", "2a", "2b", "3a", "3b", "4a", "4b", "5a", "5b", "7a", "7b">>

labelOrder == <<"2a", "2b", "3a", "3b", "4a", "4b", "5a", "5b", "6a", "6b", "7a", "7b">>

RECURSIVE IndexFrom(_, _, _)
IndexFrom(s, x, i) ==
    IF i > Len(s) THEN 0 - 1 ELSE IF s[i] = x THEN i - 1 ELSE IndexFrom(s, x, i + 1)

\* Array.prototype.indexOf, counted from 0
IndexOf(s, x) == IndexFrom(s, x, 1)

UnitReqOf(unitReqs, u) == unitReqs[CHOOSE i \in 1..Len(unitReqs) : unitReqs[i].unit = u]

-----------------------------------------------------------------------------
(* Assessment of the bank *)

InUnit(s, u) == LET T(q) == q.unit = u IN Filter(s, T)

\* a filter that forgets the level
AnyLevel(s, btl) == s

AtLevel(s, btl) == LET T(q) == q.btLevel = btl IN Filter(s, T)

\* part_000: partAQuestions and partBQuestions
PartAOf(bank) == LET T(q) == q.btLevel = L1 /\ q.unit >= 1 /\ q.unit <= 5 IN Filter(bank, T)

\* a Part B filter that keeps the questions of level 1
PartBWithLevel1(bank) == LET T(q) == q.unit >= 1 /\ q.unit <= 5 IN Filter(bank, T)

PartBOf(bank) == LET T(q) == q.btLevel # L1 /\ q.unit >= 1 /\ q.unit <= 5 IN Filter(bank, T)

RECURSIVE AddAll(_, _)
\* Set.add of every element of s, in order
AddAll(set, s) ==
    IF s = <<>> THEN set
    ELSE AddAll(IF Head(s) \in Range(set) THEN set ELSE Append(set, Head(s)), Tail(s))

\* availableBTLs of the questions qs: units 1 to 5 in turn, each in bank order
AvailableBTLsOf(qs) ==
    LET levels(u) == [i \in 1..Len(InUnit(qs, u)) |-> InUnit(qs, u)[i].btLevel]
    IN  AddAll(AddAll(AddAll(AddAll(AddAll(<<>>, levels(1)), levels(2)), levels(3)),
                      levels(4)), levels(5))

\* availableByUnitAndBTL[unit]?.[btl]?.length || 0
AvailableCount(qs, u, btl) == Len(AtLevel(InUnit(qs, u), btl))

\* btLevels: the map(parseInt || 0).filter(btl => btl > 0)
BtLevelsOf(qs) == LET T(n) == n > 0 IN Filter([i \in 1..Len(qs) |-> ParseIntOr0(qs[i].btLevel)], T)

MaxOf(s) == CHOOSE m \in Range(s) : \A n \in Range(s) : n <= m

\* what stands for the rules when no case fits
Unsupported == <<Fixed(Str("unsupported"), 0)>>

\* The case chosen for the maximum level, Unsupported when there is none
btlRequirementsFor(maxBTL, avail) ==
    IF impl = PartAB
    THEN CASE maxBTL = 6 -> <<Fixed(L2, 4), Fixed(L3, 4), Fixed(L4, 2), OneOf(<<L5, L6>>, 2)>>
           [] maxBTL = 5 -> <<Fixed(L2, 4), Fixed(L3, 4), Fixed(L4, 2), OneOf(<<L5, L3>>, 2)>>
           [] maxBTL = 4 -> <<Fixed(L2, 4), Fixed(L3, 4), Fixed(L4, 2), OneOf(<<L3, L4>>, 2)>>
           [] maxBTL = 3 -> <<Fixed(L2, 5), Fixed(L3, 5), OneOf(<<L2, L3>>, 2)>>
           [] maxBTL = 2 /\ L2 \in Range(avail) -> <<Fixed(L2, 12)>>
           [] Len(avail) = 1 /\ ~(maxBTL \in 3..6) /\ ~(maxBTL = 2 /\ L2 \in Range(avail))
                -> <<Fixed(avail[1], 12)>>
           [] OTHER -> Unsupported
    ELSE CASE maxBTL = 6 -> <<Fixed(L1, 1), Fixed(L2, 2), Fixed(L3, 1), Fixed(L4, 1),
                              OneOf(<<L5, L6>>, 1)>>
           [] maxBTL = 5 -> <<Fixed(L1, 1), Fixed(L2, 2), Fixed(L3, 1), Fixed(L4, 1),
                              OneOf(<<L5, L3>>, 1)>>
           [] maxBTL = 4 -> <<Fixed(L1, 1), Fixed(L2, 2), Fixed(L3, 1), Fixed(L4, 1),
                              OneOf(<<L3, L4>>, 1)>>
           [] maxBTL = 3 -> <<Fixed(L1, 1), Fixed(L2, 2), Fixed(L3, 2), OneOf(<<L2, L3>>, 1)>>
           [] maxBTL = 2 /\ L2 \in Range(avail) /\ L1 \in Range(avail)
                -> <<Fixed(L1, 1), Fixed(L2, 5)>>
           [] Len(avail) = 1 /\ ~(maxBTL \in 3..6)
              /\ ~(maxBTL = 2 /\ L2 \in Range(avail) /\ L1 \in Range(avail))
                -> <<Fixed(avail[1], 6)>>
           [] OTHER -> Unsupported

-----------------------------------------------------------------------------
(* part_000: generateQuestions up to the selection *)

RECURSIVE FirstFrom(_, _, _)
FirstFrom(s, Test(_), i) ==
    IF i > Len(s) THEN 0 ELSE IF Test(s[i]) THEN i ELSE FirstFrom(s, Test, i + 1)

\* index of the first element of s with Test, 0 when there is none
FirstIndex(s, Test(_)) == FirstFrom(s, Test, 1)

\* the error the checks of generateQuestions raise before the selection starts,
\* NoErr when they all pass
FeasibilityAB(bank, pt) ==
    LET partA == PartAOf(bank)
        partB == PartBOf(bank)
        aReqs == partAUnitRequirements(pt)
        bReqs == unitRequirements(pt)
        ShortA(req) == Len(InUnit(partA, req.unit)) < req.count
        ShortB(req) == Len(InUnit(partB, req.unit)) < req.minCount
        a == FirstIndex(aReqs, ShortA)
        b == FirstIndex(bReqs, ShortB)
        btLevels == BtLevelsOf(partB)
    IN  IF Len(bank) < 17
          THEN Err("InsufficientBank", {}, {}, {Len(bank)}, {17})
        ELSE IF pt \notin {"mid1", "mid2"}
          THEN Err("InvalidPaperType", {}, {}, {}, {})
        ELSE IF a # 0
          THEN Err("InsufficientL1ForUnit", {aReqs[a].unit}, {L1},
                   {Len(InUnit(partA, aReqs[a].unit))}, {aReqs[a].count})
        ELSE IF b # 0
          THEN Err("InsufficientPartBForUnit", {bReqs[b].unit}, {},
                   {Len(InUnit(partB, bReqs[b].unit))}, {bReqs[b].minCount})
        ELSE IF btLevels = <<>>
          THEN Err("NoValidBTL", {}, {}, {}, {})
        ELSE IF btlRequirementsFor(MaxOf(btLevels), AvailableBTLsOf(partB)) = Unsupported
          THEN Err("UnsupportedCase", {}, Range(AvailableBTLsOf(partB)), {}, {})
        ELSE NoErr

-----------------------------------------------------------------------------
(* Locals of the running request *)

EmptyCount == [l \in {} |-> 0]
ZeroUnits == [u \in 1..5 |-> 0]

\* btlCount[l] || 0
CountOf(c, l) == IF l \in DOMAIN c THEN c[l] ELSE 0

\* btlCount[l] = (btlCount[l] || 0) + 1
Bump(c, l) == [x \in (DOMAIN c) \cup {l} |-> IF x = l THEN CountOf(c, l) + 1 ELSE c[x]]

NoPick == [asked |-> {}, unit |-> {}, eligible |-> <<>>, relaxed |-> FALSE, took |-> {}]

Locals ==
    [paperType |-> paperType, genPool |-> genPool, partAQuestions |-> partAQuestions,
     partBQuestions |-> partBQuestions, availableBTLs |-> availableBTLs,
     btlRequirements |-> btlRequirements, remainingQuestions |-> remainingQuestions,
     selectedQuestions |-> selectedQuestions, partASelected |-> partASelected,
     unitCount |-> unitCount, btlCount |-> btlCount, slot |-> slot, count |-> count,
     randomBTLs |-> randomBTLs, lastPick |-> lastPick]

\* unit counts kept in one object between the calls
StaleLocals ==
    [paperType |-> "", genPool |-> NullBank, partAQuestions |-> <<>>,
     partBQuestions |-> <<>>, availableBTLs |-> <<>>,
     btlRequirements |-> <<>>, remainingQuestions |-> <<>>,
     selectedQuestions |-> <<>>, partASelected |-> <<>>,
     unitCount |-> unitCount, btlCount |-> EmptyCount, slot |-> 0, count |-> 0,
     randomBTLs |-> <<>>, lastPick |-> NoPick]

\* the locals as every call declares them anew
IdleLocals ==
    [paperType |-> "", genPool |-> NullBank, partAQuestions |-> <<>>,
     partBQuestions |-> <<>>, availableBTLs |-> <<>>,
     btlRequirements |-> <<>>, remainingQuestions |-> <<>>,
     selectedQuestions |-> <<>>, partASelected |-> <<>>,
     unitCount |-> ZeroUnits, btlCount |-> EmptyCount, slot |-> 0, count |-> 0,
     randomBTLs |-> <<>>, lastPick |-> NoPick]

SetLocals(locals) ==
    \E l \in {locals} :
    /\ paperType' = l.paperType
    /\ genPool' = l.genPool
    /\ partAQuestions' = l.partAQuestions
    /\ partBQuestions' = l.partBQuestions
    /\ availableBTLs' = l.availableBTLs
    /\ btlRequirements' = l.btlRequirements
    /\ remainingQuestions' = l.remainingQuestions
    /\ selectedQuestions' = l.selectedQuestions
    /\ partASelected' = l.partASelected
    /\ unitCount' = l.unitCount
    /\ btlCount' = l.btlCount
    /\ slot' = l.slot
    /\ count' = l.count
    /\ randomBTLs' = l.randomBTLs
    /\ lastPick' = l.lastPick

-----------------------------------------------------------------------------
(* The random source.  Math.random() is a generator with a hidden state:   *)
(* when rng.seeded, its state x is known and each value follows from it;   *)
(* otherwise any value of the grid may come next.                          *)

Seeds == IF rng.seeded THEN 0..15 ELSE {0}

NextState(x) == (5 * x + 3) % 16

\* the k-th next state of the generator
Later(x, k) == IF k = 0 THEN x ELSE IF k = 1 THEN NextState(x) ELSE NextState(NextState(x))

\* the values the k-th next call of Math.random() may return (k = 1, 2)
NextRandom(k) ==
    IF rng.seeded THEN {(Later(rng.x, k) * RandGrid) \div 16} ELSE 0..(RandGrid - 1)

\* n calls of Math.random() were made
Consume(n) ==
    /\ rng' = IF rng.seeded THEN [rng EXCEPT !.x = Later(rng.x, n)] ELSE rng
    /\ draws' = draws + n

-----------------------------------------------------------------------------
(* Requests *)

\* a handler that ran into an await would let another request in
HandlerAnytime == TRUE

\* The handlers are synchronous: each runs to its response before the event
\* loop takes the next request
HandlerFree == phase = "idle"


\* a step that shifts its question out of the stored array itself
GenerateShiftsBank ==
    questionBank' = [questionBank EXCEPT !.q = IF @ = <<>> THEN @ ELSE Tail(@)]

\* a generate request never assigns questionBank, and every array it changes
\* is a copy (filter, spread), so the stored bank stays as it is
GenerateKeepsBank == questionBank' = questionBank

\* the handler responds: the locals die
Finish(ret, resp, l) ==
    /\ phase' = "done"
    /\ returned' = ret
    /\ response' = resp
    /\ SetLocals([IdleLocals EXCEPT
                     !.paperType = l.paperType, !.genPool = l.genPool])

\* generateQuestions threw e: the catch block answers 500
Throw(e, l) == Finish(Threw(e), Reply("generate", 500, e, 0), l)

\* Under a seeded source the outcome of a generate request is kept, and the
\* next request repeats it: same bank, same paper type, same seed. After the
\* repetition the outcome is dropped and any request may follow
NoPrev == [valid |-> FALSE, paperType |-> "", seed |-> 0,
           returned |-> NotCalled, response |-> NoResponse]

Repeats(pt, seed) == prev.valid => (pt = prev.paperType /\ seed = prev.seed)

\* the response is sent and the handler is over
EndRequest ==
    /\ phase = "done"
    /\ phase' = "idle"
    /\ prev' = IF rng.seeded /\ response.req = "generate" /\ ~prev.valid
               THEN [valid |-> TRUE, paperType |-> paperType, seed |-> rng.seed,
                     returned |-> returned, response |-> response]
               ELSE NoPrev
    /\ rng' = [rng EXCEPT !.seed = 0, !.x = 0]
    /\ returned' = NotCalled
    /\ response' = NoResponse
    /\ SetLocals(IdleLocals)
    /\ draws' = 0
    /\ UNCHANGED <<impl, questionBank>>

-----------------------------------------------------------------------------
(* part_000: POST /api/generate *)

\* a question as selectPartAQuestions / selectPartBQuestions push it:
\* { ...q, label, part }; asked is the level the slot asked for
Selected(q, label, part, asked) ==
    [id |-> q.id, unit |-> q.unit, btLevel |-> q.btLevel, fields |-> q.fields,
     label |-> label, part |-> part, asked |-> asked]

\* for (const label of labels) of selectPartAQuestions, one iteration; after the
\* last one the unit validation, and selectPartBQuestions begins
PickPartA ==
    /\ phase = "partA"
    /\ impl = PartAB
    /\ GenerateKeepsBank
    /\ UNCHANGED <<impl, prev>>
    /\ \E labels \in {partALabels(paperType)} :
       \E unitQuestions \in {LET T(q) == q.unit = labels[slot].unit /\ q.btLevel = L1
                             IN  Filter(remainingQuestions, T)} :
       IF unitQuestions = <<>>
       THEN /\ Throw(Err("NoL1Available", {labels[slot].unit}, {L1}, {}, {}), Locals)
            /\ Consume(0)
       ELSE \E r \in NextRandom(1) :
            \E q \in {unitQuestions[RandomIndex(r, Len(unitQuestions)) + 1]} :
            \E sel \in {Append(selectedQuestions, Selected(q, labels[slot].label, "A", L1))} :
            \E uc \in {[unitCount EXCEPT ![q.unit] = @ + 1]} :
            \E l \in {[Locals EXCEPT
                         !.remainingQuestions = RemoveId(remainingQuestions, q.id),
                         !.unitCount = uc,
                         !.selectedQuestions = sel,
                         !.slot = slot + 1,
                         !.lastPick = [asked |-> {L1}, unit |-> {labels[slot].unit},
                                       eligible |-> unitQuestions, relaxed |-> FALSE,
                                       took |-> {q.id}]]} :
            \E reqs \in {partAUnitRequirements(paperType)} :
            \E w \in {LET Wrong(req) == uc[req.unit] # req.count IN FirstIndex(reqs, Wrong)} :
                /\ Consume(1)
                /\ IF slot < Len(labels)
                   THEN /\ SetLocals(l)
                        /\ phase' = "partA"
                        /\ UNCHANGED <<returned, response>>
                   ELSE IF w # 0
                   THEN Throw(Err("UnitCountNotExact", {reqs[w].unit}, {},
                                  {uc[reqs[w].unit]}, {reqs[w].count}), l)
                   ELSE /\ SetLocals([l EXCEPT
                                        !.partASelected = sel,
                                        !.selectedQuestions = <<>>,
                                        !.unitCount = ZeroUnits,
                                        !.btlCount = EmptyCount,
                                        !.remainingQuestions = partBQuestions,
                                        !.slot = 1])
                        /\ phase' = "partB"
                        /\ UNCHANGED <<returned, response>>

\* the comparator of selectedQuestions.sort in selectPartBQuestions
CompareUnitLabel(a, b) ==
    IF a.unit # b.unit THEN a.unit - b.unit
    ELSE IndexOf(labelOrder, a.label) - IndexOf(labelOrder, b.label)

\* x put into the sorted s behind every element that is not greater
InsertSorted(s, x) ==
    LET After(e) == CompareUnitLabel(e, x) > 0
    IN  IF FirstIndex(s, After) = 0 THEN Append(s, x)
        ELSE SubSeq(s, 1, FirstIndex(s, After) - 1) \o <<x>>
               \o SubSeq(s, FirstIndex(s, After), Len(s))

RECURSIVE SortByUnitLabel(_)
\* Array.prototype.sort with CompareUnitLabel (stable)
SortByUnitLabel(s) ==
    IF s = <<>> THEN <<>>
    ELSE InsertSorted(SortByUnitLabel(SubSeq(s, 1, Len(s) - 1)), s[Len(s)])

\* paperDetails of the handler: the first required field that is empty in both
\* partA[0] and partB[0]; 0 when there is none
MissingDetail(partA, partB) ==
    LET have == (IF partA # <<>> THEN partA[1].fields ELSE {})
                  \cup (IF partB # <<>> THEN partB[1].fields ELSE {})
        Missing(f) == f \notin have
    IN  FirstIndex(RequiredFields, Missing)

\* the end of generateQuestions and of the handler, after the last Part B slot
ReturnAB(partA, partB, l) ==
    IF Len(partA) # 5 THEN Throw(Err("PartALength", {}, {}, {}, {5}), l)
    ELSE IF Len(partB) # 12 THEN Throw(Err("PartBLength", {}, {}, {}, {12}), l)
    ELSE \E m \in {MissingDetail(partA, partB)} :
             Finish(ReturnedAB(partA, partB),
                    IF m # 0
                    THEN Reply("generate", 400, Err("MissingPaperDetail", {}, {}, {}, {}), 0)
                    ELSE Reply("generate", 200, NoErr, Len(partA) + Len(partB)),
                    l)

\* req.count-- of the rule the slot used
Decrement(rules, i) == IF i = 0 THEN rules ELSE [rules EXCEPT ![i].count = @ - 1]

\* a slot that draws the level of a rule with options from every available level
AskedAvailable(i, r) ==
    IF i = 0 \/ btlRequirements[i].level = RandomLevel
    THEN IF availableBTLs = <<>> THEN Str("undefined")
         ELSE availableBTLs[RandomIndex(r, Len(availableBTLs)) + 1]
    ELSE btlRequirements[i].level

\* the level a Part B slot asks for: the first rule with count left gives its
\* level, or one of its options; with no rule left, any available level
AskedLevel(i, r) ==
    IF i = 0
    THEN IF availableBTLs = <<>> THEN Str("undefined")
         ELSE availableBTLs[RandomIndex(r, Len(availableBTLs)) + 1]
    ELSE IF btlRequirements[i].level = RandomLevel
    THEN btlRequirements[i].options[RandomIndex(r, Len(btlRequirements[i].options)) + 1]
    ELSE btlRequirements[i].level

\* for (const label of labels) of selectPartBQuestions, one iteration; after the
\* last one the unit validation, the sort, and the response
PickPartB ==
    /\ phase = "partB"
    /\ impl = PartAB
    /\ GenerateKeepsBank
    /\ UNCHANGED <<impl, prev>>
    /\ \E labels \in {questionLabels(paperType)} :
       \E unit \in {labels[slot].unit} :
       \E unitReqs \in {unitRequirements(paperType)} :
       \E i \in {LET HasCount(req) == req.count > 0 IN FirstIndex(btlRequirements, HasCount)} :
       \E rolled \in {i = 0 \/ btlRequirements[i].level = RandomLevel} :
       \E r1 \in NextRandom(1), r2 \in IF rolled THEN NextRandom(2) ELSE {0} :
       \E btl \in {AskedLevel(i, r1)} :
       \E rules \in {Decrement(btlRequirements, i)} :
       \E unitQuestions \in {InUnit(remainingQuestions, unit)} :
       \E matches \in {AtLevel(unitQuestions, btl)} :
       \E relaxed \in {matches = <<>>
                         \/ unitCount[unit] >= UnitReqOf(unitReqs, unit).maxCount} :
       \E btlMatches \in {IF relaxed THEN unitQuestions ELSE matches} :
       IF btlMatches = <<>>
       THEN /\ Throw(Err("NoQuestionsForUnit", {unit}, {}, {}, {}),
                     [Locals EXCEPT !.btlRequirements = rules])
            /\ Consume(IF rolled THEN 1 ELSE 0)
       ELSE \E q \in {btlMatches[RandomIndex(IF rolled THEN r2 ELSE r1, Len(btlMatches)) + 1]} :
            \E sel \in {Append(selectedQuestions, Selected(q, labels[slot].label, "B", btl))} :
            \E uc \in {[unitCount EXCEPT ![q.unit] = @ + 1]} :
            \E l \in {[Locals EXCEPT
                         !.btlRequirements = rules,
                         !.remainingQuestions = RemoveId(remainingQuestions, q.id),
                         !.unitCount = uc,
                         !.btlCount = Bump(btlCount, q.btLevel),
                         !.selectedQuestions = sel,
                         !.slot = slot + 1,
                         !.lastPick = [asked |-> {btl}, unit |-> {unit},
                                       eligible |-> unitQuestions, relaxed |-> relaxed,
                                       took |-> {q.id}]]} :
            \E w \in {LET Below(req) == uc[req.unit] < req.minCount
                      IN  FirstIndex(unitReqs, Below)} :
                /\ Consume(IF rolled THEN 2 ELSE 1)
                /\ IF slot < Len(labels)
                   THEN /\ SetLocals(l)
                        /\ phase' = "partB"
                        /\ UNCHANGED <<returned, response>>
                   ELSE IF w # 0
                   THEN Throw(Err("UnitBelowMin", {unitReqs[w].unit}, {},
                                  {uc[unitReqs[w].unit]}, {unitReqs[w].minCount}), l)
                   ELSE \E sorted \in {SortByUnitLabel(sel)} :
                        ReturnAB(partASelected, sorted, l)

-----------------------------------------------------------------------------
(* server.js: generateQuestions *)

\* the error the checks of generateQuestions raise before selectQuestions is
\* called, NoErr when they all pass; the paper type is looked at last
Feasibility6(bank, pt) ==
    LET btLevels == BtLevelsOf(bank)
    IN  IF Len(bank) < 6
          THEN Err("InsufficientBank", {}, {}, {}, {6})
        ELSE IF btLevels = <<>>
          THEN Err("NoValidBTL", {}, {}, {}, {})
        ELSE IF btlRequirementsFor(MaxOf(btLevels), AvailableBTLsOf(bank)) = Unsupported
          THEN Err("UnsupportedCase", {}, Range(AvailableBTLsOf(bank)), {}, {})
        ELSE IF pt \notin {"mid1", "mid2", "special"}
          THEN Err("InvalidPaperType", {}, {}, {}, {})
        ELSE NoErr

RECURSIVE AvailableSum(_, _, _, _)
\* unitReqs.reduce: over the units of the paper, the questions of the level
\* in the bank, less btlCount[level] for every unit
AvailableSum(qs, unitReqs, level, used) ==
    IF unitReqs = <<>> THEN 0
    ELSE AvailableCount(qs, Head(unitReqs).unit, level) - used
           + AvailableSum(qs, Tail(unitReqs), level, used)

\* req.options.filter: the options some unit of the paper holds more often
\* than btlCount says were taken
OpenOptions(qs, unitReqs, options, taken) ==
    LET Open(btl) == \E i \in DOMAIN unitReqs :
                        AvailableCount(qs, unitReqs[i].unit, btl) > CountOf(taken, btl)
    IN  Filter(options, Open)

\* for (const req of btlReqs), the head of one iteration
EnterRule ==
    /\ phase = "rule"
    /\ impl = Server6
    /\ GenerateKeepsBank
    /\ UNCHANGED <<impl, prev>>
    /\ Consume(0)
    /\ \E req \in {btlRequirements[slot]} :
       \E unitReqs \in {unitRequirements(paperType)} :
       IF req.level = RandomLevel
       THEN \E opts \in {OpenOptions(genPool.q, unitReqs, req.options, btlCount)} :
            IF opts = <<>>
            THEN Throw(Err("NoQuestionsForBTLOptions", {}, Range(req.options), {}, {}), Locals)
            ELSE /\ SetLocals([Locals EXCEPT !.count = req.count, !.randomBTLs = opts])
                 /\ phase' = "pick"
                 /\ UNCHANGED <<returned, response>>
       ELSE \E availableCount \in {AvailableSum(genPool.q, unitReqs, req.level,
                                                CountOf(btlCount, req.level))} :
            IF availableCount < req.count
            THEN Throw(Err("InsufficientBTL", {}, {req.level}, {availableCount}, {req.count}),
                       Locals)
            ELSE /\ SetLocals([Locals EXCEPT !.count = req.count, !.randomBTLs = <<>>])
                 /\ phase' = "pick"
                 /\ UNCHANGED <<returned, response>>

\* a pickQuestion that does not look at the level
Available6AnyLevel(btl, unitReqs) ==
    LET T(q) == /\ \E i \in DOMAIN unitReqs : unitReqs[i].unit = q.unit
                /\ unitCount[q.unit] < UnitReqOf(unitReqs, q.unit).maxCount
    IN  Filter(remainingQuestions, T)

\* available of pickQuestion(btl)
Available6(btl, unitReqs) ==
    LET T(q) == /\ \E i \in DOMAIN unitReqs : unitReqs[i].unit = q.unit
                /\ q.btLevel = btl
                /\ unitCount[q.unit] < UnitReqOf(unitReqs, q.unit).maxCount
    IN  Filter(remainingQuestions, T)

\* while (count > 0), one iteration; server.js pushes q itself, so the label
\* and the part of the selected question are empty
Pick6 ==
    /\ phase = "pick"
    /\ impl = Server6
    /\ GenerateKeepsBank
    /\ UNCHANGED <<impl, prev>>
    /\ \E req \in {btlRequirements[slot]} :
       \E unitReqs \in {unitRequirements(paperType)} :
       \E rolled \in {req.level = RandomLevel} :
       \E r1 \in NextRandom(1), r2 \in IF rolled THEN NextRandom(2) ELSE {0} :
       \E btl \in {IF rolled THEN randomBTLs[RandomIndex(r1, Len(randomBTLs)) + 1]
                   ELSE req.level} :
       \E available \in {Available6(btl, unitReqs)} :
       IF available = <<>>
       THEN /\ Throw(Err(IF rolled THEN "InsufficientForBTL" ELSE "FailedToPick",
                         {}, {btl}, {}, {}), Locals)
            /\ Consume(IF rolled THEN 1 ELSE 0)
       ELSE \E q \in {available[RandomIndex(IF rolled THEN r2 ELSE r1, Len(available)) + 1]} :
            /\ Consume(IF rolled THEN 2 ELSE 1)
            /\ SetLocals([Locals EXCEPT
                            !.remainingQuestions = RemoveId(remainingQuestions, q.id),
                            !.unitCount = [unitCount EXCEPT ![q.unit] = @ + 1],
                            !.btlCount = Bump(btlCount, q.btLevel),
                            !.selectedQuestions =
                                Append(selectedQuestions, Selected(q, "", "", btl)),
                            !.count = count - 1,
                            !.slot = IF count > 1 THEN slot ELSE slot + 1,
                            !.lastPick = [asked |-> {btl}, unit |-> {},
                                          eligible |-> available, relaxed |-> FALSE,
                                          took |-> {q.id}]])
            /\ phase' = IF count > 1 THEN "pick"
                        ELSE IF slot < Len(btlRequirements) THEN "rule" ELSE "arrange"
            /\ UNCHANGED <<returned, response>>

\* a layout that asks 'special' for one question of every unit only
Layout6OnePerUnit(pt, sel) ==
    LET u1 == InUnit(sel, 1)
        u2 == InUnit(sel, 2)
        u3 == InUnit(sel, 3)
        u4 == InUnit(sel, 4)
        u5 == InUnit(sel, 5)
    IN  IF pt = "mid2"
        THEN IF Len(u3) < 1 \/ Len(u4) < 2 \/ Len(u5) < 2
             THEN [ok |-> FALSE, first |-> <<>>, rest |-> <<>>]
             ELSE [ok |-> TRUE, first |-> <<u3[1], u4[1], u4[2], u5[1], u5[2]>>,
                   rest |-> SubSeq(u4, 3, Len(u4)) \o SubSeq(u5, 3, Len(u5))]
        ELSE IF pt = "mid1"
        THEN IF Len(u1) < 2 \/ Len(u2) < 2 \/ Len(u3) < 1
             THEN [ok |-> FALSE, first |-> <<>>, rest |-> <<>>]
             ELSE [ok |-> TRUE, first |-> <<u1[1], u1[2], u2[1], u2[2], u3[1]>>,
                   rest |-> SubSeq(u1, 3, Len(u1)) \o SubSeq(u2, 3, Len(u2))]
        ELSE IF Len(u1) < 1 \/ Len(u2) < 1 \/ Len(u3) < 1 \/ Len(u4) < 1 \/ Len(u5) < 1
             THEN [ok |-> FALSE, first |-> <<>>, rest |-> <<>>]
             ELSE [ok |-> TRUE, first |-> <<u1[1], u2[1], u3[1], u4[1], u5[1]>>,
                   rest |-> Tail(u1) \o Tail(u2) \o Tail(u3) \o Tail(u4) \o Tail(u5)]

\* a layout that takes the units in turn instead of two by two
Layout6Interleaved(pt, sel) ==
    LET u1 == InUnit(sel, 1)
        u2 == InUnit(sel, 2)
        u3 == InUnit(sel, 3)
        u4 == InUnit(sel, 4)
        u5 == InUnit(sel, 5)
    IN  IF pt = "mid2"
        THEN IF Len(u3) < 1 \/ Len(u4) < 2 \/ Len(u5) < 2
             THEN [ok |-> FALSE, first |-> <<>>, rest |-> <<>>]
             ELSE [ok |-> TRUE, first |-> <<u3[1], u4[1], u5[1], u4[2], u5[2]>>,
                   rest |-> SubSeq(u4, 3, Len(u4)) \o SubSeq(u5, 3, Len(u5))]
        ELSE IF Len(u1) < 2 \/ Len(u2) < 2 \/ Len(u3) < 1
             THEN [ok |-> FALSE, first |-> <<>>, rest |-> <<>>]
             ELSE [ok |-> TRUE, first |-> <<u1[1], u2[1], u1[2], u2[2], u3[1]>>,
                   rest |-> IF pt = "mid1"
                            THEN SubSeq(u1, 3, Len(u1)) \o SubSeq(u2, 3, Len(u2))
                            ELSE SubSeq(u1, 3, Len(u1)) \o SubSeq(u2, 3, Len(u2)) \o u4 \o u5]

\* the first five questions of the paper and the candidates for the sixth
Layout6(pt, sel) ==
    LET u1 == InUnit(sel, 1)
        u2 == InUnit(sel, 2)
        u3 == InUnit(sel, 3)
        u4 == InUnit(sel, 4)
        u5 == InUnit(sel, 5)
    IN  IF pt = "mid2"
        THEN IF Len(u3) < 1 \/ Len(u4) < 2 \/ Len(u5) < 2
             THEN [ok |-> FALSE, first |-> <<>>, rest |-> <<>>]
             ELSE [ok |-> TRUE, first |-> <<u3[1], u4[1], u4[2], u5[1], u5[2]>>,
                   rest |-> SubSeq(u4, 3, Len(u4)) \o SubSeq(u5, 3, Len(u5))]
        ELSE IF Len(u1) < 2 \/ Len(u2) < 2 \/ Len(u3) < 1
             THEN [ok |-> FALSE, first |-> <<>>, rest |-> <<>>]
             ELSE [ok |-> TRUE, first |-> <<u1[1], u1[2], u2[1], u2[2], u3[1]>>,
                   rest |-> IF pt = "mid1"
                            THEN SubSeq(u1, 3, Len(u1)) \o SubSeq(u2, 3, Len(u2))
                            ELSE SubSeq(u1, 3, Len(u1)) \o SubSeq(u2, 3, Len(u2)) \o u4 \o u5]

\* the end of selectQuestions, of generateQuestions and of the handler: the
\* unit minimums, the layout with its random sixth question, the response
Arrange6 ==
    /\ phase = "arrange"
    /\ impl = Server6
    /\ GenerateKeepsBank
    /\ UNCHANGED <<impl, prev>>
    /\ \E unitReqs \in {unitRequirements(paperType)} :
       \E w \in {LET Below(req) == unitCount[req.unit] < req.minCount
                 IN  FirstIndex(unitReqs, Below)} :
       \E lay \in {Layout6(paperType, selectedQuestions)} :
       IF w # 0
       THEN /\ Throw(Err("UnitBelowMin", {unitReqs[w].unit}, {},
                         {unitCount[unitReqs[w].unit]}, {unitReqs[w].minCount}), Locals)
            /\ Consume(0)
       ELSE IF ~lay.ok
       THEN /\ Throw(Err("UnitDistribution", {}, {}, {}, {}), Locals)
            /\ Consume(0)
       ELSE IF lay.rest = <<>>
       THEN /\ Throw(Err("NoRemainingForQ6", {}, {}, {}, {}), Locals)
            /\ Consume(0)
       ELSE \E r \in NextRandom(1) :
            \E sorted \in {Append(lay.first, lay.rest[RandomIndex(r, Len(lay.rest)) + 1])} :
            /\ Consume(1)
            /\ IF Len(sorted) # 6
               THEN Throw(Err("NotExactly6", {}, {}, {}, {6}), Locals)
               ELSE Finish(Returned6(sorted), Reply("generate", 200, NoErr, Len(sorted)),
                           Locals)

-----------------------------------------------------------------------------
(* The sheets a client uploads *)

\* Mid1Min with a row of block j replaced by a row of unit I, level 3, at the end
Replaced(j) == Append(Expand(OneShort(Mid1Min, j)), Row(RI, CL3))

\* no Part B question of level 4: the maximum level is 6, level 4 is short
Mid1Max6 == Relevel(Mid1Min, 6, CL6)

\* every Part B question of level 2
Mid1AllL2 == Relevel(Relevel(Relevel(Relevel(Relevel(Mid1Min, 3, CL2), 5, CL2), 6, CL2),
                             8, CL2), 9, CL2)

\* the minimum and one more Part B question in unit III, of level 2
Mid1SpareL2 == Mid1Min \o << <<RIII, CL2, 1>> >>

\* levels 2 and 7: no supported case
Mid1L7 == Relevel(Relevel(Relevel(Relevel(Relevel(Mid1Min, 3, CL2), 5, CL2), 6, CL2),
                          8, CL2), 9, <<"L", "7">>)

\* Part B levels that parseInt does not read
Mid1LX == Relevel(Relevel(Relevel(Relevel(Relevel(Relevel(Mid1Min, 2, <<"L", "X">>),
                  3, <<"L", "X">>), 5, <<"L", "X">>), 6, <<"L", "X">>), 8, <<"L", "X">>),
                  9, <<"L", "X">>)

\* nothing of unit III, 18 rows
NoUnit3 ==
    << <<RI, CL1, 2>>, <<RI, CL2, 5>>, <<RII, CL1, 2>>, <<RII, CL3, 5>>,
       <<RIV, CL1, 2>>, <<RV, CL4, 2>> >>

\* nothing of unit III, and unit I one level-1 question short
NoUnit3Short1 == [NoUnit3 EXCEPT ![1] = <<RI, CL1, 1>>, ![2] = <<RI, CL2, 6>>]

\* the first row lacks the cell 'Subject'
NoSubject(rows) == [rows EXCEPT ![1].fields = AllFields \ {"subject"}]

SheetsAB ==
    {Expand(OneShort(Mid1Min, j)) : j \in 1..Len(Mid1Min)}
      \cup {Replaced(j) : j \in 1..Len(Mid1Min)}
      \cup {Expand(Mid1Min), Expand(Mid2Min), Expand(Mid1Max6), Expand(Mid1AllL2),
            Expand(Mid1SpareL2), Expand(Mid1L7),
            Expand(Mid1LX), Expand(NoUnit3), Expand(NoUnit3Short1),
            NoSubject(Expand(Mid1Min)), <<>>}

U1 == <<"1">>
U2 == <<"2">>
U3 == <<"3">>
U4 == <<"4">>
U5 == <<"5">>

\* server.js, mid1: six rows, exactly the minimum of every level (max level 4),
\* the two questions of level 4 in one unit
Mid1Six ==
    << <<U1, CL1, 1>>, <<U1, CL4, 2>>, <<<<" ", "2">>, CL2, 1>>, <<U2, <<"l", "3">>, 1>>,
       <<U3, <<" ", "L", "2", " ">>, 1>> >>

\* the same levels, the two questions of level 4 in two units
Mid1SixApart ==
    << <<U1, CL1, 1>>, <<U1, CL2, 1>>, <<U1, CL4, 1>>, <<U2, CL2, 1>>, <<U2, CL3, 1>>,
       <<U3, CL4, 1>> >>

\* server.js, mid1: more than the minimum
Mid1Nine ==
    << <<U1, CL1, 1>>, <<U1, CL2, 1>>, <<U1, CL4, 2>>, <<U2, CL1, 1>>, <<U2, CL2, 1>>,
       <<U2, CL3, 1>>, <<U3, CL2, 1>>, <<U3, CL4, 1>> >>

\* server.js, mid2: six rows
Mid2Six ==
    << <<U3, CL2, 1>>, <<U4, CL1, 1>>, <<U4, CL4, 2>>, <<U5, CL2, 1>>, <<U5, CL3, 1>> >>

\* server.js, special: a question in every unit
SpecialSeven ==
    << <<U1, CL1, 1>>, <<U1, CL2, 1>>, <<U2, CL2, 1>>, <<U3, CL3, 1>>, <<U4, CL4, 1>>,
       <<U5, CL4, 2>> >>

\* no question of level 3
SixNoL3 ==
    << <<U1, CL1, 1>>, <<U1, CL2, 1>>, <<U1, CL4, 1>>, <<U2, CL2, 1>>, <<U2, CL4, 1>>,
       <<U3, CL4, 1>> >>

\* nothing of unit 3
SixNoUnit3 ==
    << <<U1, CL1, 1>>, <<U1, CL4, 2>>, <<U2, CL2, 2>>, <<U2, CL3, 1>> >>

\* one level only
SixAllL2 == << <<U1, CL2, 3>>, <<U2, CL2, 2>>, <<U3, CL2, 1>> >>

\* one level only, two questions in each of the units 1 to 3
SixEvenL2 == << <<U1, CL2, 2>>, <<U2, CL2, 2>>, <<U3, CL2, 2>> >>

\* levels 1 and 2 only
SixL1L2 == << <<U1, CL1, 1>>, <<U1, CL2, 2>>, <<U2, CL2, 2>>, <<U3, CL2, 1>> >>

\* levels 2 and 7: no supported case
SixL7 == << <<U1, CL2, 3>>, <<U2, CL2, 2>>, <<U3, <<"L", "7">>, 1>> >>

\* fewer rows than any paper needs
Three == << <<U1, CL1, 1>>, <<U2, CL2, 1>>, <<U3, CL3, 1>> >>

Sheets6 ==
    {Expand(OneShort(Mid1Six, j)) : j \in 1..Len(Mid1Six)}
      \cup {Expand(Mid1Six), Expand(Mid1SixApart), Expand(Mid1Nine), Expand(Mid2Six),
            Expand(SpecialSeven), Expand(SixNoL3), Expand(SixNoUnit3), Expand(SixAllL2),
            Expand(SixEvenL2), Expand(SixL1L2), Expand(SixL7), Expand(Three)}

Sheets == SheetsAB \cup Sheets6

PaperTypes == {"mid1", "mid2", "special", "final"}

-----------------------------------------------------------------------------
(* POST /api/upload *)

\* an upload handler whose size check is off by one: 16 questions pass
UploadReplyLax(qs) ==
    LET Missing(f) == f \notin qs[1].fields
        Invalid(q) == q.btLevel \notin {L1, L2, L3, L4, L5, L6} \/ q.unit \notin 1..5
    IN  IF Len(qs) < 16
          THEN Reply("upload", 400, Err("InsufficientQuestions", {}, {}, {Len(qs)}, {17}), 0)
        ELSE IF FirstIndex(RequiredFields, Missing) # 0
          THEN Reply("upload", 400, Err("MissingField", {}, {}, {}, {}), 0)
        ELSE IF Filter(qs, Invalid) # <<>>
          THEN Reply("upload", 400,
                     Err("InvalidLevelsOrUnits", {}, {}, {Len(Filter(qs, Invalid))}, {}), 0)
        ELSE Reply("upload", 200, NoErr, Len(qs))

\* part_000: the answer to the upload of a sheet that gave the bank qs
UploadReplyAB(qs) ==
    LET Missing(f) == f \notin qs[1].fields
        Invalid(q) == q.btLevel \notin {L1, L2, L3, L4, L5, L6} \/ q.unit \notin 1..5
    IN  IF Len(qs) < 17
          THEN Reply("upload", 400, Err("InsufficientQuestions", {}, {}, {Len(qs)}, {17}), 0)
        ELSE IF FirstIndex(RequiredFields, Missing) # 0
          THEN Reply("upload", 400, Err("MissingField", {}, {}, {}, {}), 0)
        ELSE IF Filter(qs, Invalid) # <<>>
          THEN Reply("upload", 400,
                     Err("InvalidLevelsOrUnits", {}, {}, {Len(Filter(qs, Invalid))}, {}), 0)
        ELSE Reply("upload", 200, NoErr, Len(qs))

\* the bank is assigned before any validation, in both servers
Upload(jsonData) ==
    /\ HandlerFree
    /\ ~prev.valid
    /\ questionBank' = Bank(processExcelData(jsonData))
    /\ response' = IF impl = PartAB THEN UploadReplyAB(processExcelData(jsonData))
                   ELSE Reply("upload", 200, NoErr, Len(processExcelData(jsonData)))
    /\ returned' = NotCalled
    /\ SetLocals(IdleLocals)
    /\ draws' = 0
    /\ prev' = NoPrev
    /\ phase' = "done"
    /\ UNCHANGED <<impl, rng>>

\* if (!req.file)
UploadNoFile ==
    /\ HandlerFree
    /\ ~prev.valid
    /\ response' = Reply("upload", 400, Err("NoFileUploaded", {}, {}, {}, {}), 0)
    /\ returned' = NotCalled
    /\ SetLocals(IdleLocals)
    /\ draws' = 0
    /\ prev' = NoPrev
    /\ phase' = "done"
    /\ UNCHANGED <<impl, rng, questionBank>>

-----------------------------------------------------------------------------
(* POST /api/generate, up to the first loop iteration *)

\* part_000: the paper type check of the handler, then generateQuestions
StartAB(pt, base) ==
    IF pt \notin {"mid1", "mid2"}
    THEN Finish(NotCalled, Reply("generate", 400, Err("InvalidPaperType", {}, {}, {}, {}), 0),
                base)
    ELSE IF FeasibilityAB(questionBank.q, pt) # NoErr
    THEN Throw(FeasibilityAB(questionBank.q, pt), base)
    ELSE /\ SetLocals([base EXCEPT
                         !.partAQuestions = PartAOf(questionBank.q),
                         !.partBQuestions = PartBOf(questionBank.q),
                         !.availableBTLs = AvailableBTLsOf(PartBOf(questionBank.q)),
                         !.btlRequirements =
                             btlRequirementsFor(MaxOf(BtLevelsOf(PartBOf(questionBank.q))),
                                                AvailableBTLsOf(PartBOf(questionBank.q))),
                         !.remainingQuestions = PartAOf(questionBank.q),
                         !.slot = 1])
         /\ phase' = "partA"
         /\ returned' = NotCalled
         /\ response' = NoResponse

\* server.js: generateQuestions up to the call of selectQuestions
Start6(pt, base) ==
    IF Feasibility6(questionBank.q, pt) # NoErr
    THEN Throw(Feasibility6(questionBank.q, pt), base)
    ELSE /\ SetLocals([base EXCEPT
                         !.availableBTLs = AvailableBTLsOf(questionBank.q),
                         !.btlRequirements =
                             btlRequirementsFor(MaxOf(BtLevelsOf(questionBank.q)),
                                                AvailableBTLsOf(questionBank.q)),
                         !.remainingQuestions = questionBank.q,
                         !.slot = 1])
         /\ phase' = "rule"
         /\ returned' = NotCalled
         /\ response' = NoResponse

\* a handler that goes on to generateQuestions without a bank
NoBankNever == FALSE

\* if (!questionBank) of the generate handler
NoBank == questionBank.null

GenerateStart(pt, seed) ==
    /\ HandlerFree
    /\ Repeats(pt, seed)
    /\ GenerateKeepsBank
    /\ UNCHANGED <<impl, prev>>
    /\ rng' = IF rng.seeded THEN [rng EXCEPT !.seed = seed, !.x = seed] ELSE rng
    /\ draws' = 0
    /\ LET base == [IdleLocals EXCEPT
                       !.paperType = pt, !.genPool = questionBank]
       IN  IF NoBank
           THEN Finish(NotCalled,
                       Reply("generate", 400, Err("NoQuestionsAvailable", {}, {}, {}, {}), 0),
                       base)
           ELSE IF impl = PartAB THEN StartAB(pt, base)
           ELSE Start6(pt, base)

-----------------------------------------------------------------------------
Init ==
    /\ impl \in Impls
    /\ questionBank = NullBank
    /\ phase = "idle"
    /\ paperType = ""
    /\ genPool = NullBank
    /\ partAQuestions = <<>>
    /\ partBQuestions = <<>>
    /\ availableBTLs = <<>>
    /\ btlRequirements = <<>>
    /\ remainingQuestions = <<>>
    /\ selectedQuestions = <<>>
    /\ partASelected = <<>>
    /\ unitCount = ZeroUnits
    /\ btlCount = EmptyCount
    /\ slot = 0
    /\ count = 0
    /\ randomBTLs = <<>>
    /\ lastPick = NoPick
    /\ returned = NotCalled
    /\ response = NoResponse
    /\ draws = 0
    /\ rng \in {[seeded |-> b, seed |-> 0, x |-> 0] : b \in BOOLEAN}
    /\ prev = NoPrev

Next ==
    \/ \E jsonData \in Sheets : Upload(jsonData)
    \/ UploadNoFile
    \/ \E pt \in PaperTypes, seed \in Seeds : GenerateStart(pt, seed)
    \/ PickPartA
    \/ PickPartB
    \/ EnterRule
    \/ Pick6
    \/ Arrange6
    \/ EndRequest

Spec == Init /\ [][Next]_vars

-----------------------------------------------------------------------------
(* Properties *)

\* a generate request has been answered
Generated == phase = "done" /\ response.req = "generate"

\* the questions generateQuestions returned, in the order of the response
Paper == returned.partA \o returned.partB \o returned.questions

\* the rules generateQuestions of part_000 chose for the pool of the request
RulesOfPool ==
    btlRequirementsFor(MaxOf(BtLevelsOf(PartBOf(genPool.q))),
                       AvailableBTLsOf(PartBOf(genPool.q)))

RECURSIVE FixedNeed(_, _)
\* the number of questions the fixed rules ask of level l
FixedNeed(rules, l) ==
    IF rules = <<>> THEN 0
    ELSE (IF Head(rules).level = l THEN Head(rules).count ELSE 0) + FixedNeed(Tail(rules), l)

RECURSIVE TotalNeed(_)
TotalNeed(rules) == IF rules = <<>> THEN 0 ELSE Head(rules).count + TotalNeed(Tail(rules))

OptionLevels(rules) == UNION {Range(rules[i].options) : i \in DOMAIN rules}

\* items can be dealt to the rules: as many as the rules ask, every level
\* outside the options exactly as often as its fixed rule asks, every level of
\* the options at least as often
QuotasMet(items, rules) ==
    /\ Len(items) = TotalNeed(rules)
    /\ \A l \in {items[i].btLevel : i \in DOMAIN items} \cup {rules[i].level : i \in DOMAIN rules}
                  \cup OptionLevels(rules) :
          \/ l = RandomLevel
          \/ IF l \in OptionLevels(rules)
             THEN Len(AtLevel(items, l)) >= FixedNeed(rules, l)
             ELSE Len(AtLevel(items, l)) = FixedNeed(rules, l)

\* no Part B slot took a question of another level than it asked for
NoFallback == \A i \in DOMAIN returned.partB : returned.partB[i].btLevel = returned.partB[i].asked

\* C1: in part_000, a generate request for mid1 or mid2 on a stored pool ends
\* in an exception of generateQuestions or in 5 Part A and 12 Part B questions
\* of the pool, Part A with each unit's count and Part B with each unit's
\* count between minCount and maxCount
C1_PaperComplete ==
    (impl = PartAB /\ Generated /\ ~genPool.null /\ paperType \in {"mid1", "mid2"}) =>
        \/ returned.kind = "throw"
        \/ /\ returned.kind = "return"
           /\ Len(returned.partA) = 5
           /\ Len(returned.partB) = 12
           /\ \A i \in DOMAIN Paper : \E k \in DOMAIN genPool.q : genPool.q[k].id = Paper[i].id
           /\ \A i \in DOMAIN partAUnitRequirements(paperType) :
                 Len(InUnit(returned.partA, partAUnitRequirements(paperType)[i].unit))
                    = partAUnitRequirements(paperType)[i].count
           /\ \A i \in DOMAIN unitRequirements(paperType) :
                 /\ Len(InUnit(returned.partB, unitRequirements(paperType)[i].unit))
                       >= unitRequirements(paperType)[i].minCount
                 /\ Len(InUnit(returned.partB, unitRequirements(paperType)[i].unit))
                       <= unitRequirements(paperType)[i].maxCount

\* a mid2 paper of part_000 was returned
C1_Witness ==
    impl = PartAB /\ Generated /\ returned.kind = "return" /\ paperType = "mid2"
      /\ Len(returned.partB) = 12

\* C2 as stated: in part_000, the Part B questions of every returned paper
\* meet the difficulty rules of the pool's maximum level exactly
C2_QuotasExact ==
    (impl = PartAB /\ Generated /\ returned.kind = "return") =>
        QuotasMet(returned.partB, RulesOfPool)

\* C2, amended: in part_000, the Part B questions of a returned paper meet the
\* difficulty rules exactly whenever no slot fell back to another level
C2_QuotasExactWithoutFallback ==
    (impl = PartAB /\ Generated /\ returned.kind = "return" /\ NoFallback) =>
        QuotasMet(returned.partB, RulesOfPool)

\* a paper was returned whose slots all got the level they asked for, one of
\* them a level drawn from the options of a rule
C2_Witness ==
    /\ impl = PartAB /\ Generated /\ returned.kind = "return" /\ NoFallback
    /\ \E i \in DOMAIN RulesOfPool : RulesOfPool[i].level = RandomLevel

\* C3: the ids of the questions of a returned paper are pairwise distinct, in
\* part_000 over Part A and Part B together, in server.js over the six
\* questions with the random sixth
C3_DistinctIds ==
    (Generated /\ returned.kind = "return") =>
        \A i, j \in DOMAIN Paper : i # j => Paper[i].id # Paper[j].id

\* server.js returned six questions of a pool that holds more than six
C3_Witness ==
    impl = Server6 /\ Generated /\ returned.kind = "return" /\ Len(returned.questions) = 6
      /\ Len(genPool.q) > 6

\* C4: in part_000, an exception of generateQuestions comes before the first
\* call of Math.random and is the one the checks give for the pool and the
\* paper type; when the checks pass, no sequence of random values ends in one
C4_ErrorsBeforeDraws ==
    (impl = PartAB /\ Generated /\ ~genPool.null /\ paperType \in {"mid1", "mid2"}) =>
        /\ returned.kind = "throw" =>
              draws = 0 /\ returned.error = FeasibilityAB(genPool.q, paperType)
        /\ returned.kind = "return" =>
              draws > 0 /\ FeasibilityAB(genPool.q, paperType) = NoErr

\* generateQuestions of part_000 threw for a pool of 17 questions whose unit
\* is short of Part B questions
C4_Witness ==
    impl = PartAB /\ Generated /\ returned.kind = "throw" /\ draws = 0
      /\ returned.error.type = "InsufficientPartBForUnit" /\ Len(genPool.q) >= 17

\* C5: a generate request repeated on the same pool with the same paper type
\* and the same values of Math.random gives what the first one gave: the same
\* questions with the same labels in the same order and the same response, or
\* the same exception
C5_SameRandomSameResult ==
    (Generated /\ prev.valid) => (returned = prev.returned /\ response = prev.response)

\* a paper was returned a second time under a seed other than the first one
C5_Witness ==
    Generated /\ prev.valid /\ returned.kind = "return" /\ draws > 0 /\ rng.seed > 0

\* C6: no step of a generate request changes questionBank: the stored pool
\* changes in an upload only, whatever the generate requests around it end in
C6_GenerateKeepsPool ==
    [][~(phase = "idle" /\ response'.req = "upload") => questionBank' = questionBank]_vars

\* a generate request on the pool a failed request left is answered, and the
\* pool is the one the request started with
C6_Witness ==
    /\ Generated /\ prev.valid /\ prev.response.status = 500
    /\ ~questionBank.null /\ questionBank.q # <<>> /\ questionBank = genPool

\* the pool of the request is what the server made of the sheet rows
PoolOf(rows) == genPool = Bank(processExcelData(rows))

\* the error carries the unit or the level of the block b of a sheet
NamesBlock(e, b) == e.unit = {UnitOfCell(b[1])} \/ e.level = {LevelOfCell(b[2])}

\* C7 as stated, for mid1: the sheets with exactly the minimum of every unit
\* and level give a paper; a sheet one row short of a unit or of a level gives
\* an exception that carries that unit or that level
C7_Boundary ==
    (Generated /\ paperType = "mid1") =>
        /\ (impl = PartAB /\ PoolOf(Expand(Mid1Min))) => returned.kind = "return"
        /\ (impl = Server6 /\ (PoolOf(Expand(Mid1Six)) \/ PoolOf(Expand(Mid1SixApart))))
              => returned.kind = "return"
        /\ \A j \in 1..Len(Mid1Min) :
              (impl = PartAB /\ PoolOf(Expand(OneShort(Mid1Min, j))))
                 => (returned.kind = "throw" /\ NamesBlock(returned.error, Mid1Min[j]))
        /\ (impl = PartAB /\ PoolOf(Replaced(2)))
              => (returned.kind = "throw" /\ returned.error.level = {L2})
        /\ (impl = PartAB /\ PoolOf(Expand(Mid1Max6)))
              => (returned.kind = "throw" /\ returned.error.level = {L4})
        /\ \A j \in 1..Len(Mid1Six) :
              (impl = Server6 /\ PoolOf(Expand(OneShort(Mid1Six, j))))
                 => (returned.kind = "throw" /\ NamesBlock(returned.error, Mid1Six[j]))

\* the pool of the request is stored and holds no question of unit 3
NoUnit3Pool == ~genPool.null /\ InUnit(genPool.q, 3) = <<>>

\* C8 as stated: on a pool with no question of unit 3, mid1 and mid2 end in an
\* insufficient-unit exception that names unit 3 and has 0
C8_Unit3Named ==
    (Generated /\ NoUnit3Pool /\ paperType \in {"mid1", "mid2"}) =>
        /\ returned.kind = "throw"
        /\ returned.error.type \in {"InsufficientL1ForUnit", "InsufficientPartBForUnit",
                                    "UnitBelowMin"}
        /\ returned.error.unit = {3}
        /\ returned.error.have = {0}

\* C8, amended: on a pool with no question of unit 3, mid1 and mid2 never give
\* a paper; part_000 names unit 3 with 0 of 1 level-1 questions when the pool
\* holds 17 questions and, for mid1, units 1 and 2 hold their two level-1
\* questions; server.js names unit 3 with 0 of 1 when it reaches the unit
\* minimums
C8_Unit3NamedWhenReached ==
    (Generated /\ NoUnit3Pool /\ paperType \in {"mid1", "mid2"}) =>
        /\ returned.kind = "throw"
        /\ (/\ impl = PartAB
            /\ Len(genPool.q) >= 17
            /\ paperType = "mid1" => /\ Len(InUnit(PartAOf(genPool.q), 1)) >= 2
                                     /\ Len(InUnit(PartAOf(genPool.q), 2)) >= 2)
              => returned.error = Err("InsufficientL1ForUnit", {3}, {L1}, {0}, {1})
        /\ (impl = Server6 /\ returned.error.type = "UnitBelowMin")
              => returned.error = Err("UnitBelowMin", {3}, {}, {0}, {1})

\* part_000 refused mid1 on 18 questions of units 1, 2, 4 and 5 for unit 3
C8_Witness ==
    /\ impl = PartAB /\ Generated /\ NoUnit3Pool /\ paperType = "mid1"
    /\ Len(genPool.q) >= 17
    /\ returned.error = Err("InsufficientL1ForUnit", {3}, {L1}, {0}, {1})

\* C9 as stated: on a stored pool, a paper type the server does not know ends
\* in the invalid-paper-type error and in nothing else
C9_UnknownPaperType ==
    (Generated /\ ~genPool.null /\ paperType \notin KnownPaperTypes) =>
        (response.error.type = "InvalidPaperType" /\ returned.kind # "return")

\* a generate request is between its first step and its response
Running == phase \notin {"idle", "done"}

\* C10: from its first step to its response a generate request works on one
\* pool: no step in between changes questionBank, the pool is the one the
\* request started with, and every question it holds or returns is of that pool
C10_OnePoolPerRun ==
    [][Running =>
          /\ questionBank' = questionBank
          /\ questionBank = genPool
          /\ genPool' = genPool
          /\ \A i \in DOMAIN remainingQuestions' : remainingQuestions'[i] \in Range(genPool.q)
          /\ \A i \in DOMAIN selectedQuestions' :
                \E k \in DOMAIN genPool.q :
                    /\ genPool.q[k].id = selectedQuestions'[i].id
                    /\ genPool.q[k].unit = selectedQuestions'[i].unit
                    /\ genPool.q[k].btLevel = selectedQuestions'[i].btLevel
          /\ \A i \in DOMAIN Paper' :
                \E k \in DOMAIN genPool.q :
                    /\ genPool.q[k].id = Paper'[i].id
                    /\ genPool.q[k].unit = Paper'[i].unit
                    /\ genPool.q[k].btLevel = Paper'[i].btLevel]_vars

\* a request of part_000 is in its Part B selection, on the stored pool
C10_Witness ==
    phase = "partB" /\ slot > 1 /\ questionBank = genPool /\ partASelected # <<>>

\* C11: in part_000 an upload that stores fewer than 17 questions is answered
\* 400 with the insufficient-questions error; generateQuestions throws its own
\* size error on such a bank; the selection loops run, and a paper is
\* returned, only on a bank of 17 questions or more
C11_SmallPoolsRejected ==
    impl = PartAB =>
        /\ (phase = "done" /\ response.req = "upload"
               /\ response.error.type # "NoFileUploaded" /\ Len(questionBank.q) < 17)
              => (response.status = 400 /\ response.error.type = "InsufficientQuestions")
        /\ (phase \in {"partA", "partB"})
              => (Len(genPool.q) >= 17 /\ questionBank = genPool)
        /\ (Generated /\ ~genPool.null /\ paperType \in {"mid1", "mid2"}
               /\ Len(genPool.q) < 17)
              => (returned.kind = "throw" /\ returned.error.type = "InsufficientBank")
        /\ (returned.kind = "return") => Len(genPool.q) >= 17

\* a rejected upload left 16 questions in the bank, and generateQuestions
\* refused them
C11_Witness ==
    impl = PartAB /\ Generated /\ Len(genPool.q) = 16 /\ returned.kind = "throw"
      /\ returned.error.type = "InsufficientBank"

\* the errors of the checks generateQuestions of part_000 makes before it selects
FeasibilityErrors ==
    {"InsufficientBank", "InvalidPaperType", "InsufficientL1ForUnit",
     "InsufficientPartBForUnit", "NoValidBTL", "UnsupportedCase"}

\* the verdict of the feasibility checks in an outcome of generateQuestions:
\* the error they threw, NoErr when they passed
VerdictOf(ret) ==
    IF ret.kind = "throw" /\ ret.error.type \in FeasibilityErrors THEN ret.error ELSE NoErr

\* C12: in part_000 the verdict of the feasibility checks, and the error they
\* throw, depend on the stored bank and the paper type only: the selection is
\* entered only when the checks pass on the bank the request found, every
\* outcome of generateQuestions gives the verdict of the checks on that bank,
\* and a request repeated on the same bank gives the verdict of the request
\* before it
C12_FeasibilityIdempotent ==
    impl = PartAB =>
        /\ (phase = "partA" /\ selectedQuestions = <<>>)
              => FeasibilityAB(genPool.q, paperType) = NoErr
        /\ (Generated /\ returned.kind # "none")
              => VerdictOf(returned) = FeasibilityAB(genPool.q, paperType)
        /\ (Generated /\ returned.kind # "none" /\ prev.valid)
              => VerdictOf(returned) = VerdictOf(prev.returned)

\* the checks passed a second time, after a request that selected a whole
\* paper from the same bank
C12_Witness ==
    impl = PartAB /\ Generated /\ prev.valid /\ prev.returned.kind = "return"
      /\ returned.kind = "return" /\ questionBank = genPool

\* C13 as stated: every exception of generateQuestions that ends a generate
\* request carries a unit or a level, and the have and the need count
C13_ErrorsCarryDetail ==
    (Generated /\ returned.kind = "throw") =>
        /\ returned.error.unit # {} \/ returned.error.level # {}
        /\ returned.error.have # {}
        /\ returned.error.need # {}

\* C14: a generate request that finds no stored bank is answered 400 with the
\* no-questions error and generateQuestions is not called; a paper is returned
\* only from a bank that an upload stored
C14_NoPaperBeforeUpload ==
    /\ (Generated /\ genPool.null)
          => /\ response.status = 400
             /\ response.error.type = "NoQuestionsAvailable"
             /\ returned = NotCalled
    /\ (phase \notin {"idle", "done"}) => ~genPool.null
    /\ (returned.kind = "return") => (~genPool.null /\ ~questionBank.null)

\* a generate request was answered before any upload stored a bank
C14_Witness ==
    Generated /\ genPool.null /\ questionBank.null /\ paperType = "mid1"
      /\ response.status = 400

\* C15: in server.js every paper returned for mid1 has six questions, of the
\* units 1, 1, 2, 2, 3 and then 1 or 2; every paper returned for mid2 has six
\* questions, of the units 3, 4, 4, 5, 5 and then 4 or 5; the number of
\* questions of each unit lies between its minCount and its maxCount
C15_Layout6 ==
    (impl = Server6 /\ Generated /\ returned.kind = "return"
       /\ paperType \in {"mid1", "mid2"}) =>
        LET qs == returned.questions
            Units(s) == [i \in DOMAIN s |-> s[i].unit]
        IN  /\ Len(qs) = 6
            /\ SubSeq(Units(qs), 1, 5) = IF paperType = "mid1" THEN <<1, 1, 2, 2, 3>>
                                         ELSE <<3, 4, 4, 5, 5>>
            /\ qs[6].unit \in IF paperType = "mid1" THEN {1, 2} ELSE {4, 5}
            /\ \A i \in DOMAIN unitRequirements(paperType) :
                  /\ Len(InUnit(qs, unitRequirements(paperType)[i].unit))
                        >= unitRequirements(paperType)[i].minCount
                  /\ Len(InUnit(qs, unitRequirements(paperType)[i].unit))
                        <= unitRequirements(paperType)[i].maxCount

\* server.js returned a mid2 paper whose sixth question is of unit 4
C15_Witness ==
    impl = Server6 /\ Generated /\ returned.kind = "return" /\ paperType = "mid2"
      /\ Len(returned.questions) = 6 /\ returned.questions[6].unit = 4

\* the rules generateQuestions of server.js chose for the pool of the request
RulesOfPool6 ==
    btlRequirementsFor(MaxOf(BtLevelsOf(genPool.q)), AvailableBTLsOf(genPool.q))

\* the number of items of level l
CountLevel(items, l) == Cardinality({i \in DOMAIN items : items[i].btLevel = l})

\* items can be dealt to the rules: every fixed rule gets exactly its count of
\* items of its level, and the rule with options, if there is one, gets exactly
\* one item, of a level of its options
DealtExactly(items, rules) ==
    LET levels == {items[i].btLevel : i \in DOMAIN items}
                    \cup ({rules[i].level : i \in DOMAIN rules} \ {RandomLevel})
    IN  IF \A i \in DOMAIN rules : rules[i].level # RandomLevel
        THEN \A l \in levels : CountLevel(items, l) = FixedNeed(rules, l)
        ELSE \E o \in OptionLevels(rules) :
                \A l \in levels \cup {o} :
                    CountLevel(items, l) = FixedNeed(rules, l) + (IF l = o THEN 1 ELSE 0)

\* C16: in server.js the six questions of a returned paper can be dealt to the
\* rules of the pool's maximum level, every fixed rule exactly its count of its
\* level and the 'random' rule exactly one question of a level of its options
C16_RulesExact6 ==
    (impl = Server6 /\ Generated /\ returned.kind = "return") =>
        /\ Len(returned.questions) = 6
        /\ DealtExactly(returned.questions, RulesOfPool6)

\* server.js returned a paper under rules with a 'random' rule, from a pool
\* that holds more questions than the rules ask
C16_Witness ==
    /\ impl = Server6 /\ Generated /\ returned.kind = "return"
    /\ \E i \in DOMAIN RulesOfPool6 : RulesOfPool6[i].level = RandomLevel
    /\ Len(genPool.q) > 6

\* C17: in the Part B selection of part_000 a slot takes a question of its
\* unit, of another level than it asked for only if no remaining question of
\* the unit has that level at the draw; the draw throws only if no question of
\* the unit remains
C17_FallbackOnlyWhenNone ==
    [][(impl = PartAB /\ phase = "partB") =>
        LET unit == questionLabels(paperType)[slot].unit
            inUnit == InUnit(remainingQuestions, unit)
            Fresh(x) == \A i \in DOMAIN selectedQuestions : selectedQuestions[i].id # x.id
            Honest(x) ==
                /\ \E k \in DOMAIN inUnit : inUnit[k].id = x.id
                /\ x.btLevel # x.asked
                      => \A k \in DOMAIN inUnit : inUnit[k].btLevel # x.asked
        IN  CASE phase' = "partB" ->
                   /\ Len(selectedQuestions') = Len(selectedQuestions) + 1
                   /\ Honest(selectedQuestions'[Len(selectedQuestions')])
              [] returned'.kind = "return" ->
                   \A i \in DOMAIN returned'.partB :
                       Fresh(returned'.partB[i]) => Honest(returned'.partB[i])
              [] returned'.kind = "throw" /\ returned'.error.type = "NoQuestionsForUnit" ->
                   inUnit = <<>>
              [] OTHER -> TRUE]_vars

\* a Part B slot has taken a question of another level than it asked for
C17_Witness ==
    /\ impl = PartAB /\ phase = "partB" /\ selectedQuestions # <<>>
    /\ lastPick.relaxed
    /\ selectedQuestions[Len(selectedQuestions)].btLevel
          # selectedQuestions[Len(selectedQuestions)].asked

\* every label of labels is on exactly one of the items, a question of the
\* unit declared for the label
LabelsPlaced(labels, items) ==
    \A k \in DOMAIN labels :
        /\ Cardinality({i \in DOMAIN items : items[i].label = labels[k].label}) = 1
        /\ \A i \in DOMAIN items :
              items[i].label = labels[k].label => items[i].unit = labels[k].unit

\* C18: in a paper part_000 returns, every Part A label and every Part B label
\* is on exactly one question of its part, of the unit declared for the label,
\* and no other label occurs; every Part A question has level '1' and every
\* Part B question another level
C18_LabelsAndLevels ==
    (impl = PartAB /\ Generated /\ returned.kind = "return") =>
        /\ LabelsPlaced(partALabels(paperType), returned.partA)
        /\ LabelsPlaced(questionLabels(paperType), returned.partB)
        /\ Len(returned.partA) = Len(partALabels(paperType))
        /\ Len(returned.partB) = Len(questionLabels(paperType))
        /\ \A i \in DOMAIN returned.partA : returned.partA[i].btLevel = L1
        /\ \A i \in DOMAIN returned.partB : returned.partB[i].btLevel # L1

\* part_000 returned a mid1 paper in which a slot fell back to another level
C18_Witness ==
    /\ impl = PartAB /\ Generated /\ returned.kind = "return" /\ paperType = "mid1"
    /\ \E i \in DOMAIN returned.partB : returned.partB[i].btLevel # returned.partB[i].asked

\* C19: the Part B questions part_000 returns are in ascending order of unit
\* and, within a unit, in the order 2a 2b 3a 3b 4a 4b 5a 5b 6a 6b 7a 7b of
\* their labels; the label at position k is the label of the k-th declared slot
C19_SortedAsDeclared ==
    (impl = PartAB /\ Generated /\ returned.kind = "return") =>
        LET b == returned.partB
            Pos(label) == IndexOf(<<"2a", "2b", "3a", "3b", "4a", "4b", "5a", "5b",
                                    "6a", "6b", "7a", "7b">>, label)
        IN  /\ \A i, j \in DOMAIN b :
                  i < j => \/ b[i].unit < b[j].unit
                           \/ b[i].unit = b[j].unit /\ Pos(b[i].label) < Pos(b[j].label)
            /\ Len(b) = Len(questionLabels(paperType))
            /\ \A k \in DOMAIN b : b[k].label = questionLabels(paperType)[k].label

\* a mid1 paper of part_000: label 6b, of unit 1, stands before label 4a
C19_Witness ==
    /\ impl = PartAB /\ Generated /\ returned.kind = "return" /\ paperType = "mid1"
    /\ Len(returned.partB) = 12
    /\ returned.partB[5].label = "6b" /\ returned.partB[6].label = "4a"

\* C20 as stated: in server.js, when pickQuestion could take a question of a
\* unit that is below its minCount, it does not take one of a unit that has
\* reached its minCount
C20_PrefersUnitsBelowMin ==
    (impl = Server6 /\ phase \in {"pick", "rule", "arrange"} /\ lastPick.took # {}) =>
        LET unitReqs == unitRequirements(paperType)
            q == CHOOSE e \in Range(lastPick.eligible) : e.id \in lastPick.took
            Before(u) == unitCount[u] - (IF u = q.unit THEN 1 ELSE 0)
            Below(u) == Before(u) < UnitReqOf(unitReqs, u).minCount
        IN  (\E k \in DOMAIN lastPick.eligible : Below(lastPick.eligible[k].unit))
                => Below(q.unit)

-----------------------------------------------------------------------------
\* C21: in part_000 an upload that is answered with a rejection (status 400:
\* too few questions, a missing field on the first question, an invalid level or
\* unit) leaves the stored question bank exactly as it was before the upload
C21_RejectedUploadKeepsBank ==
    [][(impl = PartAB /\ phase = "idle" /\ response'.req = "upload"
          /\ response'.status = 400)
         => questionBank' = questionBank]_vars

-----------------------------------------------------------------------------
\* the unit minimums of the paper type hold for the selection (server.js 323-327)
UnitMinimumsMet ==
    \A i \in DOMAIN unitRequirements(paperType) :
        unitCount[unitRequirements(paperType)[i].unit]
            >= unitRequirements(paperType)[i].minCount

\* the two questions of unit 1, two of unit 2 and one of unit 3 the layout of
\* 'special' starts with (server.js 385)
SpecialLayoutFits ==
    /\ Len(InUnit(selectedQuestions, 1)) >= 2
    /\ Len(InUnit(selectedQuestions, 2)) >= 2
    /\ Len(InUnit(selectedQuestions, 3)) >= 1

-----------------------------------------------------------------------------
\* C23: in server.js the draws of a fixed-level rule whose availability count
\* passed all succeed: no request ends with the error 'Failed to pick BTL ...
\* despite availability'
C23_FailedToPickUnreachable ==
    (impl = Server6 /\ Generated /\ returned.kind = "throw")
      => returned.error.type # "FailedToPick"

====
